---- MODULE Spec2Model ----
(***************************************************************************)
(* CaseBuddy live session (src/src/pages/Index.tsx, component LiveSession  *)
(* and its parent CaseBuddyApp): the connection attempt started by the     *)
(* init effect, the callbacks of the remote live session, the playback     *)
(* scheduling of received audio chunks, the updateNotebook tool calls and  *)
(* the end-of-session flow.                                                *)
(*                                                                         *)
(* Every browser callback runs to completion on the one event thread, so   *)
(* each action below is one callback, or the part of an async function     *)
(* between two awaits.  Time is counted in ticks of an output context's    *)
(* clock.  An attempt is one run of the init effect (lines 470-736); the   *)
(* remote session, the audio contexts, the processor node and the timer    *)
(* created by attempt a are all named a.  0 stands for null.               *)
(***************************************************************************)
EXTENDS Integers, Sequences, FiniteSets, TLC

\* Bounds of the model.
MaxAttempts == 2   \* runs of the init effect (mount + audio-setting toggles)
MaxChunks == 2     \* server messages with audio delivered
MaxTime == 2       \* ticks an output clock may advance
MaxDur == 2        \* longest audio chunk, in ticks
MaxNew == 2        \* session records made on top of an initial store
MaxTurns == 2      \* completed conversational turns of the model
SampleScale == 4   \* microphone samples are multiples of 1 / SampleScale

\* The gain slider, lines 950-957: min 0, max 3, step 0.1, counted in tenths.
GainScale == 10
GainMax == 30

NULL == 0
Attempts == 1..MaxAttempts

Max(a, b) == IF a >= b THEN a ELSE b

VARIABLES
    \* CaseBuddyApp
    view,                 \* 'live-interview' | 'feedback'
    completedSession,     \* number of sessions handed to handleEndLiveSession
    caseId,               \* the selected case handed to LiveSession, or null
    \* LiveSession React state
    status,               \* 'connecting' | 'connected' | 'error'
    isMuted,
    mutedAt,              \* the status shown when mute was last switched on
    notebook,
    \* the effect run
    attempt,              \* the latest run of the init effect
    initPc,               \* where init() of each attempt stands
    closureMuted,         \* isMuted as captured by each attempt's closures
    \* refs
    mediaStreamRef, inputAudioContextRef, outputAudioContextRef,
    scriptProcessorRef, sourceNodeRef,
    sessionRef, nextStartTimeRef, sourcesRef, timerIntervalRef,
    \* platform objects the refs point to
    liveStreams,          \* microphone streams whose tracks are not stopped
    openInputs,           \* input audio contexts not closed
    openOutputs,          \* output audio contexts not closed
    liveProcessors,       \* processor nodes still connected
    runningTimers,        \* setInterval timers not cleared
    tornDown,             \* sessions that were current when stopSession ran
    now,                  \* currentTime of each output context
    chunks,               \* every buffer source ever started, in order
    \* the remote sessions
    ws,                   \* transport state of each attempt's session
    msgCount,             \* server messages with audio delivered so far
    turns,                \* server messages with turnComplete delivered so far
    transcript,           \* LiveSession's transcript state
    pending,              \* onmessage invocations awaiting decodeAudioData
    toolCalls,            \* the function calls of the latest toolCall message
    toolResponses,        \* the sendToolResponse calls of its handler, in order
    lastInput,            \* the latest sendRealtimeInput call
    pcm,                  \* the 16-bit sample the latest frame carried
    inputGainRef,         \* the microphone gain, in tenths
    \* handleEndSession
    endPc,
    localWrites,          \* session lists written to local storage
    remoteInserts,        \* rows inserted into the sessions table
    session,              \* id of the record handleEndSession built last
    endSaves,             \* saveSession calls made by handleEndSession
    insertCalls,          \* insert requests issued by handleEndSession
    \* local storage (utils/storage.ts) and the clock behind Date.now()
    sessionsItem,         \* the item under SESSIONS_KEY
    currentItem,          \* the item under CURRENT_SESSION_KEY
    clock,
    \* FeedbackView
    fbPc,                 \* where generateFeedback stands
    feedback, loading,    \* its React state
    onCompleteCalls,      \* onComplete calls of the running generation
    \* handleSaveSession and handleLoadSession
    savePc,               \* where handleSaveSession stands, and its caseId
    resumedFrom,          \* id of the saved session the live session resumes
    \* history
    cut,                  \* what has reset the cursor since the last chunk was
                          \* scheduled: 'none', 'interrupted' or 'stopped'
    connects,             \* ai.live.connect calls of each attempt
    errorAttempt,         \* the attempt whose failure set status 'error'
    handshakeFailed       \* attempts whose connect promise rejected

appVars == <<view, completedSession, caseId>>
muteVars == <<isMuted, mutedAt>>
stateVars == <<status, muteVars, notebook>>
effectVars == <<attempt, initPc, closureMuted>>
inputRefs == <<mediaStreamRef, inputAudioContextRef, scriptProcessorRef, sourceNodeRef>>
inputObjs == <<liveStreams, openInputs, liveProcessors, tornDown>>
outputVars == <<outputAudioContextRef, nextStartTimeRef, sourcesRef, openOutputs, chunks, cut>>
timerVars == <<timerIntervalRef, runningTimers>>
toolVars == <<toolCalls, toolResponses>>
storeVars == <<sessionsItem, currentItem, clock>>
feedbackVars == <<fbPc, feedback, loading, onCompleteCalls>>
appFlow == <<savePc, resumedFrom>>
endVars == <<endPc, localWrites, remoteInserts, session, endSaves, insertCalls,
             storeVars, feedbackVars, appFlow>>
realtimeSent == <<lastInput, pcm, inputGainRef>>
msgVars == <<msgCount, turns, transcript>>
histVars == <<errorAttempt, handshakeFailed, connects>>

vars == <<appVars, stateVars, effectVars, inputRefs, inputObjs, outputVars,
          timerVars, sessionRef, now, ws, msgVars, pending, toolVars,
          realtimeSent, endVars, histVars>>

\* The LiveSession component is rendered only in the live-interview view
\* (line 1392); state setters of an unmounted component change nothing.
Mounted == view = "live-interview"

(***************************************************************************)
(* Notebook                                                                *)
(***************************************************************************)
\* useState initial value, lines 308-315.
DefaultNotebook ==
    [caseTitle |-> "Initializing...", currentPhase |-> "Setup",
     keyData |-> <<>>, candidateFramework |-> <<>>,
     caseTimeline |-> <<>>, trialNotes |-> <<>>]

\* JavaScript truthiness of a string argument (line 685): '' is falsy.
Truthy(v) == v # ""

Has(args, f) == f \in DOMAIN args

\* The updater without lines 685-687: a plain shallow merge.
updateNotebookShallow(prev, args) ==
    [f \in (DOMAIN prev) \cup (DOMAIN args) |->
        IF f \in DOMAIN args THEN args[f] ELSE prev[f]]

\* The updater with line 686 replacing the timeline by the new event.
updateNotebookReplace(prev, args) ==
    LET next == updateNotebookShallow(prev, args)
    IN  IF Has(args, "newTimelineEvent") /\ Truthy(args["newTimelineEvent"])
        THEN [next EXCEPT !["caseTimeline"] = <<args["newTimelineEvent"]>>]
        ELSE next

\* The updater spreading args over the initial notebook instead of prev.
updateNotebookArgsOnly(prev, args) ==
    [f \in (DOMAIN DefaultNotebook) \cup (DOMAIN args) |->
        IF f \in DOMAIN args THEN args[f] ELSE DefaultNotebook[f]]

\* The setNotebook updater, lines 683-689: spread prev, spread args over it
\* (every key of args, newTimelineEvent included, becomes a key of next),
\* then rebuild caseTimeline when args.newTimelineEvent is truthy.
updateNotebook(prev, args) ==
    LET next == [f \in (DOMAIN prev) \cup (DOMAIN args) |->
                    IF f \in DOMAIN args THEN args[f] ELSE prev[f]]
    IN  IF Has(args, "newTimelineEvent") /\ Truthy(args["newTimelineEvent"])
        THEN [next EXCEPT !["caseTimeline"] =
                 Append(prev["caseTimeline"], args["newTimelineEvent"])]
        ELSE next

\* The setNotebook updater of addTrialNote, lines 357-360.
addNote(prev, note) == [prev EXCEPT !["trialNotes"] = Append(@, note)]

\* filter((_, i) => i !== index), line 368; positions count from 1 here.
RemoveAt(list, index) ==
    SubSeq(list, 1, index - 1) \o SubSeq(list, index + 1, Len(list))

\* The setNotebook updater of removeTrialNote, lines 365-369.
removeNote(prev, index) == [prev EXCEPT !["trialNotes"] = RemoveAt(@, index)]

\* A sendRealtimeInput call: the processor node (or, for the empty message of
\* line 715, the attempt) it comes from, the session it is sent on, and the
\* mute state shown to the user at that moment, as the status under which
\* the user switched mute on ('none': not muted).
NoInput == [kind |-> "none", from |-> NULL, to |-> NULL, muted |-> "none"]

\* No toolCall message has been handled yet.
NoCalls == [sess |-> NULL, calls |-> <<>>]

(***************************************************************************)
(* Initial state: LiveSession has just mounted and the first run of the    *)
(* init effect has reached its first await (getUserMedia, line 487).       *)
(***************************************************************************)
Mount(case) ==
    /\ view = "live-interview"
    /\ completedSession = 0
    /\ caseId = case
    /\ status = "connecting"
    /\ isMuted = FALSE
    /\ mutedAt = "none"
    /\ notebook = DefaultNotebook
    /\ attempt = 1
    /\ initPc = [a \in Attempts |-> IF a = 1 THEN "awaitMic" ELSE "idle"]
    /\ closureMuted = [a \in Attempts |-> FALSE]
    /\ mediaStreamRef = NULL /\ inputAudioContextRef = NULL
    /\ outputAudioContextRef = NULL
    /\ scriptProcessorRef = NULL /\ sourceNodeRef = NULL
    /\ sessionRef = NULL /\ nextStartTimeRef = 0 /\ sourcesRef = {}
    /\ timerIntervalRef = NULL
    /\ liveStreams = {} /\ openInputs = {} /\ openOutputs = {}
    /\ liveProcessors = {} /\ runningTimers = {}
    /\ tornDown = {}
    /\ now = [a \in Attempts |-> 0]
    /\ chunks = <<>>
    /\ ws = [a \in Attempts |-> "none"]
    /\ msgCount = 0 /\ turns = 0
    /\ transcript = <<>>
    /\ pending = {}
    /\ toolCalls = NoCalls /\ toolResponses = <<>>
    /\ lastInput = NoInput /\ pcm = 0 /\ inputGainRef = GainScale
    /\ endPc = "idle" /\ localWrites = 0 /\ remoteInserts = 0
    /\ session = NULL /\ endSaves = 0 /\ insertCalls = 0
    /\ fbPc = "idle" /\ feedback = "none" /\ loading = TRUE /\ onCompleteCalls = 0
    /\ savePc = [at |-> "idle", case |-> NULL] /\ resumedFrom = NULL
    /\ cut = "none"
    /\ connects = [a \in Attempts |-> 0]
    /\ errorAttempt = NULL
    /\ handshakeFailed = {}

(***************************************************************************)
(* stopSession, lines 372-411                                              *)
(***************************************************************************)
\* Lines 394-396 left out: the sources of the live set keep playing.
StopNoSource(cs, live) == cs

\* source.stop() on every source of the live set (lines 394-396).
StopSources(cs, live) ==
    [i \in DOMAIN cs |-> IF i \in live THEN [cs[i] EXCEPT !.st = "stopped"] ELSE cs[i]]

\* Lines 410 and 673 left out: the cursor keeps its value.
ResetCursorKept == nextStartTimeRef

\* The cursor after a teardown (line 410) or an interruption (line 673).
ResetCursor == 0

stopSession ==
    /\ liveProcessors' = liveProcessors \ {scriptProcessorRef}
    /\ scriptProcessorRef' = NULL
    /\ sourceNodeRef' = NULL
    /\ liveStreams' = liveStreams \ {mediaStreamRef}
    /\ mediaStreamRef' = NULL
    /\ openInputs' = openInputs \ {inputAudioContextRef}
    /\ inputAudioContextRef' = NULL
    /\ chunks' = StopSources(chunks, sourcesRef)
    /\ sourcesRef' = {}
    /\ openOutputs' = openOutputs \ {outputAudioContextRef}
    /\ outputAudioContextRef' = NULL
    /\ runningTimers' = runningTimers \ {timerIntervalRef}
    /\ timerIntervalRef' = NULL
    /\ nextStartTimeRef' = ResetCursor
    /\ cut' = "stopped"
    /\ tornDown' = tornDown \cup ({sessionRef} \ {NULL})

(***************************************************************************)
(* The user's controls                                                     *)
(***************************************************************************)
\* The mute button, line 966.  No effect or callback is re-created: the
\* init effect depends on [config, echoCancellation, noiseSuppression] only.
toggleMute ==
    /\ Mounted
    /\ isMuted' = ~isMuted
    /\ mutedAt' = IF isMuted THEN "none" ELSE status
    /\ UNCHANGED <<appVars, status, notebook, effectVars, inputRefs, inputObjs,
                   outputVars, timerVars, sessionRef, now, ws, msgVars, pending,
                   toolVars, realtimeSent, endVars, histVars>>

\* addTrialNote, lines 355-363, with currentNote.trim() = note: an empty
\* note is not added.
addTrialNote(note) ==
    /\ Mounted
    /\ notebook' = IF note # "" THEN addNote(notebook, note) ELSE notebook
    /\ UNCHANGED <<appVars, status, muteVars, effectVars, inputRefs, inputObjs,
                   outputVars, timerVars, sessionRef, now, ws, msgVars, pending,
                   toolVars, realtimeSent, endVars, histVars>>

\* removeTrialNote, lines 365-370: the remove button of the note at index.
removeTrialNote(index) ==
    /\ Mounted
    /\ index \in DOMAIN notebook["trialNotes"]
    /\ notebook' = removeNote(notebook, index)
    /\ UNCHANGED <<appVars, status, muteVars, effectVars, inputRefs, inputObjs,
                   outputVars, timerVars, sessionRef, now, ws, msgVars, pending,
                   toolVars, realtimeSent, endVars, histVars>>

\* Noise-suppression / echo-cancellation toggle, lines 839 and 854: the
\* effect's dependency changes, so React runs its cleanup (lines 732-735)
\* and then the effect again; init() runs up to its first await (line 487).
toggleAudioSetting ==
    /\ Mounted
    /\ attempt < MaxAttempts
    /\ stopSession
    /\ attempt' = attempt + 1
    /\ initPc' = [initPc EXCEPT ![attempt + 1] = "awaitMic"]
    /\ closureMuted' = [closureMuted EXCEPT ![attempt + 1] = isMuted]
    /\ status' = "connecting"
    /\ UNCHANGED <<appVars, muteVars, notebook, sessionRef, now, ws, msgVars,
                   pending, toolVars, realtimeSent, endVars, histVars>>

(***************************************************************************)
(* init(), lines 473-728                                                   *)
(***************************************************************************)
\* getUserMedia rejects: the catch of lines 723-727.
getUserMediaRejected(a) ==
    /\ initPc[a] = "awaitMic"
    /\ initPc' = [initPc EXCEPT ![a] = "micFailed"]
    /\ status' = IF Mounted THEN "error" ELSE status
    /\ errorAttempt' = IF Mounted THEN a ELSE errorAttempt
    /\ UNCHANGED <<appVars, muteVars, notebook, attempt, closureMuted, inputRefs,
                   inputObjs, outputVars, timerVars, sessionRef, now, ws, msgVars,
                   pending, toolVars, realtimeSent, endVars, handshakeFailed,
                   connects>>

\* getUserMedia resolves: lines 496-721 run without an await in between.
\* The refs are overwritten whatever they hold, and ai.live.connect is
\* called once.
getUserMediaResolved(a) ==
    /\ initPc[a] = "awaitMic"
    /\ initPc' = [initPc EXCEPT ![a] = "awaitConnect"]
    /\ mediaStreamRef' = a /\ liveStreams' = liveStreams \cup {a}
    /\ inputAudioContextRef' = a /\ openInputs' = openInputs \cup {a}
    /\ outputAudioContextRef' = a /\ openOutputs' = openOutputs \cup {a}
    /\ sourceNodeRef' = a
    /\ scriptProcessorRef' = a /\ liveProcessors' = liveProcessors \cup {a}
    /\ ws' = [ws EXCEPT ![a] = "connecting"]
    /\ connects' = [connects EXCEPT ![a] = connects[a] + 1]
    /\ UNCHANGED <<appVars, stateVars, attempt, closureMuted, nextStartTimeRef,
                   sourcesRef, chunks, cut, timerVars, sessionRef, now, msgVars,
                   pending, toolVars, realtimeSent, endVars, errorAttempt,
                   handshakeFailed, tornDown>>

\* onclose as it would read with a reconnect: the status leaves 'error'.
OnCloseStatusReconnect(s) == "connecting"

\* The status the callbacks set: lines 629 and 707; onclose sets none.
OnOpenStatus(s) == "connected"
OnErrorStatus(s) == "error"
OnCloseStatus(s) == s

\* callbacks.onopen, lines 626-638.
onopen(a) ==
    /\ ws[a] = "connecting"
    /\ ws' = [ws EXCEPT ![a] = "open"]
    /\ status' = IF Mounted THEN OnOpenStatus(status) ELSE status
    /\ timerIntervalRef' = a
    /\ runningTimers' = runningTimers \cup {a}
    /\ UNCHANGED <<appVars, muteVars, notebook, effectVars, inputRefs, inputObjs,
                   outputVars, sessionRef, now, msgVars, pending, toolVars,
                   realtimeSent, endVars, histVars>>

\* sessionPromise.then, lines 712-721: the connect promise resolves with
\* the session once the transport is open.
sessionPromiseThen(a) ==
    /\ initPc[a] = "awaitConnect"
    /\ ws[a] = "open"
    /\ initPc' = [initPc EXCEPT ![a] = "ready"]
    /\ sessionRef' = a
    /\ lastInput' = [kind |-> "initial", from |-> a, to |-> a, muted |-> mutedAt]
    /\ UNCHANGED <<pcm, inputGainRef>>
    /\ UNCHANGED <<appVars, stateVars, attempt, closureMuted, inputRefs, inputObjs,
                   outputVars, timerVars, now, ws, msgVars, pending, toolVars,
                   endVars, histVars>>

\* The connect promise rejects.  sessionPromise is not awaited and has no
\* rejection handler (lines 611, 712), so no code of init() runs.
sessionPromiseRejected(a) ==
    /\ initPc[a] = "awaitConnect"
    /\ ws[a] = "connecting"
    /\ initPc' = [initPc EXCEPT ![a] = "rejected"]
    /\ ws' = [ws EXCEPT ![a] = "closed"]
    /\ handshakeFailed' = handshakeFailed \cup {a}
    /\ UNCHANGED <<appVars, stateVars, attempt, closureMuted, inputRefs, inputObjs,
                   outputVars, timerVars, sessionRef, now, msgVars, pending,
                   toolVars, realtimeSent, endVars, errorAttempt, connects>>

\* callbacks.onerror, lines 705-708.
onerror(a) ==
    /\ \/ ws[a] = "connecting"
       \/ ws[a] = "open" /\ initPc[a] = "ready"
    /\ ws' = [ws EXCEPT ![a] = "errored"]
    /\ status' = IF Mounted THEN OnErrorStatus(status) ELSE status
    /\ errorAttempt' = IF Mounted THEN a ELSE errorAttempt
    /\ UNCHANGED <<appVars, muteVars, notebook, effectVars, inputRefs, inputObjs,
                   outputVars, timerVars, sessionRef, now, msgVars, pending,
                   toolVars, realtimeSent, endVars, handshakeFailed, connects>>

\* callbacks.onclose, lines 701-704.
onclose(a) ==
    /\ \/ ws[a] = "errored"
       \/ ws[a] = "open" /\ initPc[a] = "ready"
    /\ ws' = [ws EXCEPT ![a] = "closed"]
    /\ stopSession
    /\ status' = IF Mounted THEN OnCloseStatus(status) ELSE status
    /\ UNCHANGED <<appVars, muteVars, notebook, effectVars, sessionRef, now,
                   msgVars, pending, toolVars, realtimeSent, endVars, histVars>>

(***************************************************************************)
(* The microphone path.  A sample x of the input buffer, -1 <= x <= 1, is  *)
(* the integer x * SampleScale; the gain g, 0 <= g <= 3 in steps of 0.1,   *)
(* is the integer g * GainScale; a sample after the gain is counted in     *)
(* units of 1 / (SampleScale * GainScale).                                 *)
(***************************************************************************)
Gains == 0..GainMax

Samples == -SampleScale..SampleScale

\* The value 1.0 of a sample after the gain.
Unit == SampleScale * GainScale

\* The slider's onChange, line 956, and the effect of lines 341-343.
setInputGain(g) ==
    /\ Mounted
    /\ inputGainRef' = g
    /\ UNCHANGED <<appVars, stateVars, effectVars, inputRefs, inputObjs, outputVars,
                   timerVars, sessionRef, now, ws, msgVars, pending, toolVars,
                   lastInput, pcm, endVars, histVars>>

\* Math.round of n / d, for d > 0: halves round up.
RoundDiv(n, d) == (2 * n + d) \div (2 * d)

\* Storing a number into an Int16Array keeps its low 16 bits.
ToInt16(n) == ((n + 32768) % 65536) - 32768

Clamp(v, lo, hi) == IF v < lo THEN lo ELSE IF v > hi THEN hi ELSE v

\* The gain left out: the sample is encoded as captured.
ApplyNoGain(x, gain) == x * GainScale

\* inputData[i] *= gain, lines 531-534.
ApplyGain(x, gain) == x * gain

\* createPcmBlob of utils/audioUtils, for one sample s after the gain: the
\* sample is clamped to [-1, 1] and scaled to 16 bits, by 32768 below zero
\* and by 32767 from zero up.
createPcmBlob(s) ==
    LET c == Clamp(s, -Unit, Unit)
    IN  ToInt16(IF c < 0 THEN RoundDiv(c * 32768, Unit) ELSE RoundDiv(c * 32767, Unit))

\* processor.onaudioprocess, lines 525-544, for a buffer of samples x.
\* isMuted is the value the closure captured when the effect ran; the frame
\* goes to whatever session sessionRef holds.
onaudioprocess(p, x) ==
    /\ p \in liveProcessors
    /\ p \in openInputs
    /\ IF closureMuted[p] \/ sessionRef = NULL
       THEN UNCHANGED <<lastInput, pcm>>
       ELSE /\ lastInput' = [kind |-> "frame", from |-> p, to |-> sessionRef,
                             muted |-> mutedAt]
            /\ pcm' = createPcmBlob(ApplyGain(x, inputGainRef))
    /\ UNCHANGED <<appVars, stateVars, effectVars, inputRefs, inputObjs, outputVars,
                   timerVars, sessionRef, now, ws, msgVars, pending, toolVars,
                   inputGainRef, endVars, histVars>>

(***************************************************************************)
(* callbacks.onmessage, lines 639-700                                      *)
(***************************************************************************)
\* The function calls a server message may carry.
CallTitle == [id |-> 1, name |-> "updateNotebook", args |-> [caseTitle |-> "Acme"]]
CallPhase == [id |-> 2, name |-> "updateNotebook", args |-> [currentPhase |-> "Analysis"]]
CallOther == [id |-> 3, name |-> "otherTool", args |-> [caseTitle |-> "unused"]]
Batches == {<<>>, <<CallTitle>>, <<CallOther, CallPhase>>, <<CallTitle, CallPhase>>}

\* A server message: the duration of its inline audio (0: none), its
\* interrupted flag, its toolCall.functionCalls (empty: no toolCall) and
\* serverContent.turnComplete, which closes a turn of the model.
Messages ==
    [audio : 0..MaxDur, interrupted : BOOLEAN, calls : Batches, turnComplete : BOOLEAN]

\* Line 651 without the cursor: every chunk starts as soon as it is decoded.
ScheduleStartNow(currentTime, nextStartTime) == currentTime

\* Line 651.
ScheduleStart(currentTime, nextStartTime) == Max(currentTime, nextStartTime)

\* Lines 650-660: the decoded buffer is started and tracked.  The result is
\* the new <<chunks, sourcesRef, nextStartTimeRef, cut>>.
Schedule(p, cs, live, cursor, c) ==
    LET start == ScheduleStart(now[p.ctx], cursor)
        src == [ctx |-> p.ctx, start |-> start, dur |-> p.dur, st |-> "live",
                h |-> p.h, nowAt |-> now[p.ctx], cursorAt |-> cursor, afterCut |-> c]
    IN  <<Append(cs, src), live \cup {Len(cs) + 1}, start + p.dur, "none">>

\* Lines 666-674.
Interrupt(flag, o) ==
    IF flag THEN <<StopSources(o[1], o[2]), {}, ResetCursor, "interrupted">> ELSE o

\* The session a tool response is sent on, line 690.
ResponseTarget(handlerSession) == sessionRef

\* Lines 679-698, the loop body for calls[k..]: the notebook after the
\* setNotebook updaters of the updateNotebook calls have run.
RECURSIVE ApplyCalls(_, _, _)
ApplyCalls(nb, calls, k) ==
    IF k > Len(calls) THEN nb
    ELSE IF calls[k].name = "updateNotebook"
         THEN IF sessionRef = NULL
              THEN updateNotebook(nb, calls[k].args)   \* line 690 throws: the loop ends
              ELSE ApplyCalls(updateNotebook(nb, calls[k].args), calls, k + 1)
         ELSE ApplyCalls(nb, calls, k + 1)

\* The tool responses the loop sends, in order.
RECURSIVE Responses(_, _, _)
Responses(a, calls, k) ==
    IF k > Len(calls) \/ sessionRef = NULL THEN <<>>
    ELSE IF calls[k].name = "updateNotebook"
         THEN <<[id |-> calls[k].id, name |-> calls[k].name, to |-> ResponseTarget(a)]>>
                 \o Responses(a, calls, k + 1)
         ELSE Responses(a, calls, k + 1)

\* Lines 666-699: what an onmessage invocation of session a does after its
\* audio part; o is <<chunks, sourcesRef, nextStartTimeRef, cut>> as the
\* audio part left it.  A message without toolCall skips lines 677-699.
AfterAudio(a, interrupted, calls, o) ==
    LET r == Interrupt(interrupted, o)
    IN  /\ chunks' = r[1]
        /\ sourcesRef' = r[2]
        /\ nextStartTimeRef' = r[3]
        /\ cut' = r[4]
        /\ IF calls = <<>>
           THEN UNCHANGED <<toolCalls, toolResponses, notebook>>
           ELSE /\ toolCalls' = [sess |-> a, calls |-> calls]
                /\ notebook' = IF Mounted THEN ApplyCalls(notebook, calls, 1) ELSE notebook
                /\ toolResponses' = Responses(a, calls, 1)

\* The handlers suspended at line 648 after lines 666-674 have run: with
\* the flag set, an interruption has overtaken each of them.
Overtaken(flag, waiting) ==
    IF flag THEN {[q EXCEPT !.overtaken = TRUE] : q \in waiting} ELSE waiting

\* A message of session a arrives.  With audio and an output context the
\* handler suspends at await decodeAudioData (line 648), holding ctx.
onmessage(a, m) ==
    /\ ws[a] = "open"
    /\ initPc[a] = "ready"
    /\ m.audio > 0 => msgCount < MaxChunks
    /\ m.turnComplete => turns < MaxTurns
    /\ msgCount' = IF m.audio > 0 THEN msgCount + 1 ELSE msgCount
    /\ turns' = IF m.turnComplete THEN turns + 1 ELSE turns
    /\ UNCHANGED transcript
    /\ IF m.audio > 0 /\ outputAudioContextRef # NULL
       THEN /\ pending' = pending \cup
                  {[h |-> msgCount + 1, sess |-> a, ctx |-> outputAudioContextRef,
                    dur |-> m.audio, interrupted |-> m.interrupted, calls |-> m.calls,
                    overtaken |-> FALSE]}
            /\ UNCHANGED <<chunks, sourcesRef, nextStartTimeRef, cut, toolVars, notebook>>
       ELSE /\ AfterAudio(a, m.interrupted, m.calls,
                          <<chunks, sourcesRef, nextStartTimeRef, cut>>)
            /\ pending' = Overtaken(m.interrupted, pending)
    /\ UNCHANGED <<appVars, status, muteVars, effectVars, inputRefs, inputObjs,
                   outputAudioContextRef, openOutputs, timerVars, sessionRef, now,
                   ws, realtimeSent, endVars, histVars>>

\* decodeAudioData of utils/audioUtils: it works asynchronously, and the
\* promise of any decode in flight may be the next to settle.
decodeAudioData(p) == p \in pending

\* decodeAudioData settles and the handler resumes at line 649; when it
\* throws, the catch of line 661 skips the scheduling.
decodeAudioDataDone(p, ok) ==
    /\ decodeAudioData(p)
    /\ pending' = Overtaken(p.interrupted, pending \ {p})
    /\ AfterAudio(p.sess, p.interrupted, p.calls,
                  IF ok THEN Schedule(p, chunks, sourcesRef, nextStartTimeRef, cut)
                        ELSE <<chunks, sourcesRef, nextStartTimeRef, cut>>)
    /\ UNCHANGED <<appVars, status, muteVars, effectVars, inputRefs, inputObjs,
                   outputAudioContextRef, openOutputs, timerVars, sessionRef, now,
                   ws, msgVars, realtimeSent, endVars, histVars>>

\* source.onended, line 660: playback of source i reached its end.
sourceOnended(i) ==
    /\ i \in DOMAIN chunks
    /\ chunks[i].st = "live"
    /\ chunks[i].ctx \in openOutputs
    /\ now[chunks[i].ctx] >= chunks[i].start + chunks[i].dur
    /\ chunks' = [chunks EXCEPT ![i].st = "ended"]
    /\ sourcesRef' = sourcesRef \ {i}
    /\ UNCHANGED <<appVars, stateVars, effectVars, inputRefs, inputObjs,
                   outputAudioContextRef, openOutputs, nextStartTimeRef, cut,
                   timerVars, sessionRef, now, ws, msgVars, pending, toolVars,
                   realtimeSent, endVars, histVars>>

\* The clock of an open output context advances.
Tick(c) ==
    /\ c \in openOutputs
    /\ now[c] < MaxTime
    /\ now' = [now EXCEPT ![c] = now[c] + 1]
    /\ UNCHANGED <<appVars, stateVars, effectVars, inputRefs, inputObjs, outputVars,
                   timerVars, sessionRef, ws, msgVars, pending, toolVars,
                   realtimeSent, endVars, histVars>>

(***************************************************************************)
(* utils/storage.ts.  A stored session is [id, feedback]: its id and the   *)
(* feedback attached to it ('none', 'parsed' or 'fallback'); the other     *)
(* fields of a SavedSession are never rewritten once the record is built.  *)
(* An item of local storage is modelled by the value JSON.parse gives for  *)
(* it, with a flag for a key that was never set.                           *)
(***************************************************************************)
\* sessions.slice(0, 50), line 18.
SliceLimit == 50

NoItem == [set |-> FALSE, list |-> <<>>]
NoSession == [id |-> NULL, feedback |-> "none"]

Min(a, b) == IF a <= b THEN a ELSE b

\* Line 18 left out: the list is written untrimmed.
SliceAll(list, n) == list

\* Array.prototype.slice(0, n).
Slice(list, n) == SubSeq(list, 1, Min(n, Len(list)))

\* Array.prototype.findIndex on s.id === id; 0 stands for JavaScript's -1.
FindIndex(list, id) ==
    IF \E k \in DOMAIN list : list[k].id = id
    THEN CHOOSE k \in DOMAIN list :
            /\ list[k].id = id
            /\ \A m \in DOMAIN list : list[m].id = id => k <= m
    ELSE 0

\* getAllSessions, lines 26-34: a missing item reads as the empty list.
getAllSessions(item) == IF item.set THEN item.list ELSE <<>>

\* getLastSession, lines 36-44.
getLastSession(item) == item

\* saveSession with push in place of unshift (line 14).
saveSessionPush(item, s) ==
    [set |-> TRUE, list |-> Slice((IF item.set THEN item.list ELSE <<>>) \o <<s>>, SliceLimit)]

\* Lines 8-18 of saveSession: the list written under SESSIONS_KEY.
saveSession(item, s) ==
    LET sessions == getAllSessions(item)
        existingIndex == FindIndex(sessions, s.id)
        updated == IF existingIndex > 0
                   THEN [sessions EXCEPT ![existingIndex] = s]
                   ELSE <<s>> \o sessions
    IN  [set |-> TRUE, list |-> Slice(updated, SliceLimit)]

\* Lines 48-50 of deleteSession.
deleteSession(item, sessionId) ==
    LET sessions == getAllSessions(item)
    IN  [set |-> TRUE, list |-> SelectSeq(sessions, LAMBDA s : s.id # sessionId)]

\* saveSession, lines 6-24, as the application calls it: both items are
\* written (lines 19-20), or localStorage throws, the catch logs it and
\* nothing is written.
saveSessionToStorage(s, ok) ==
    /\ sessionsItem' = IF ok THEN saveSession(sessionsItem, s) ELSE sessionsItem
    /\ currentItem' = IF ok THEN s ELSE currentItem

(***************************************************************************)
(* FeedbackView (generateFeedback) and handleFeedbackComplete              *)
(***************************************************************************)
\* What the awaited sendMessage can come to: a reply holding a JSON report,
\* a reply without a JSON object (line 419 throws), a reply whose braces do
\* not parse (JSON.parse throws), or a rejected request.
Outcomes == {"report", "noJson", "badJson", "throws"}

\* The report generateFeedback ends with: the parsed one, or the fixed
\* fallback of the catch block (overallScore 75).
ReportFor(outcome) == IF outcome = "report" THEN "parsed" ELSE "fallback"

\* handleFeedbackComplete, Index.tsx lines 1333-1339: the completed session
\* is saved again under its id with the feedback, and the view changes.
handleFeedbackComplete(fb) ==
    /\ IF completedSession > 0
       THEN \E ok \in BOOLEAN :
               saveSessionToStorage([id |-> session, feedback |-> fb], ok)
       ELSE UNCHANGED <<sessionsItem, currentItem>>
    /\ view' = "landing"

\* FeedbackView mounts: the effect calls generateFeedback, which runs up to
\* await model.sendMessage.
generateFeedback ==
    /\ fbPc' = "awaitReply"
    /\ feedback' = "none"
    /\ loading' = TRUE
    /\ onCompleteCalls' = 0

\* sendMessage settles and generateFeedback runs to its end: setFeedback,
\* onComplete, then finally setLoading(false).  onComplete has changed the
\* view by then, so FeedbackView is no longer rendered when setLoading runs.
generateFeedbackSettled(outcome) ==
    /\ fbPc = "awaitReply"
    /\ fbPc' = "done"
    /\ feedback' = ReportFor(outcome)
    /\ handleFeedbackComplete(ReportFor(outcome))
    /\ onCompleteCalls' = onCompleteCalls + 1
    /\ loading' = IF view' = "feedback" THEN FALSE ELSE loading
    /\ UNCHANGED <<completedSession, caseId, stateVars, effectVars, inputRefs,
                   inputObjs, outputVars, timerVars, sessionRef, now, ws, msgVars,
                   pending, toolVars, realtimeSent, endPc, localWrites,
                   remoteInserts, session, endSaves, insertCalls, clock, appFlow,
                   histVars>>

(***************************************************************************)
(* handleEndSession, lines 413-440, and handleEndLiveSession, 1326-1329    *)
(***************************************************************************)
\* The last id Date.now() hands out in the model.
LastId == SliceLimit + MaxNew

\* id: Date.now().toString() as it would read if a resumed session kept the
\* id of the saved session it was loaded from.
ResumedSessionId(resumed) == IF resumed # NULL THEN resumed ELSE clock

\* id: Date.now().toString(), lines 415 and 444: a new id for every record,
\* also when the live session resumes a saved one.
NewSessionId(resumed) == clock

\* if (user && caseId) as it would read without the test.
InsertAlways(user, case) == TRUE

\* if (user && caseId), line 427.
InsertWanted(user, case) == user /\ case # NULL

\* End Session is clicked: lines 414-426, up to await supabase.auth.getUser().
\* The record's id is Date.now().
handleEndSession ==
    /\ Mounted
    /\ endPc = "idle"
    /\ clock <= LastId
    /\ stopSession
    /\ session' = NewSessionId(resumedFrom)
    /\ clock' = clock + 1
    /\ \E ok \in BOOLEAN :
          /\ saveSessionToStorage([id |-> NewSessionId(resumedFrom), feedback |-> "none"], ok)
          /\ localWrites' = IF ok THEN localWrites + 1 ELSE localWrites
    /\ endSaves' = endSaves + 1
    /\ endPc' = "awaitUser"
    /\ UNCHANGED <<appVars, stateVars, effectVars, sessionRef, now, ws, msgVars,
                   pending, toolVars, realtimeSent, remoteInserts, insertCalls,
                   feedbackVars, appFlow, histVars>>

\* onEnd(session), line 439, is handleEndLiveSession: the view becomes
\* 'feedback', LiveSession unmounts, the effect cleanup (lines 732-735)
\* calls stopSession, and FeedbackView mounts with the session.
onEnd ==
    /\ completedSession' = completedSession + 1
    /\ view' = "feedback"
    /\ endPc' = "done"
    /\ stopSession
    /\ generateFeedback
    /\ UNCHANGED caseId

\* getUser settles with a value: a user, or none (signed out, or the lookup
\* failed and returned its error).  Lines 426-427.
getUserResolved(user) ==
    /\ endPc = "awaitUser"
    /\ IF InsertWanted(user, caseId)
       THEN /\ endPc' = "awaitInsert"
            /\ insertCalls' = insertCalls + 1
            /\ UNCHANGED <<appVars, inputRefs, inputObjs, outputVars, timerVars,
                           feedbackVars>>
       ELSE /\ onEnd
            /\ UNCHANGED insertCalls
    /\ UNCHANGED <<stateVars, effectVars, sessionRef, now, ws, msgVars, pending,
                   toolVars, realtimeSent, localWrites, remoteInserts, session,
                   endSaves, storeVars, appFlow, histVars>>

\* The insert settles with a value: the row is stored, or the error is
\* returned and ignored.  Lines 436-439.
insertResolved(ok) ==
    /\ endPc = "awaitInsert"
    /\ remoteInserts' = IF ok THEN remoteInserts + 1 ELSE remoteInserts
    /\ onEnd
    /\ UNCHANGED <<stateVars, effectVars, sessionRef, now, ws, msgVars, pending,
                   toolVars, realtimeSent, localWrites, session, endSaves,
                   insertCalls, storeVars, appFlow, histVars>>

\* An awaited remote call rejects: handleEndSession has no try/catch, so the
\* async function ends there and line 439 is not reached.
remoteCallRejected ==
    /\ endPc \in {"awaitUser", "awaitInsert"}
    /\ endPc' = "threw"
    /\ UNCHANGED <<appVars, stateVars, effectVars, inputRefs, inputObjs, outputVars,
                   timerVars, sessionRef, now, ws, msgVars, pending, toolVars,
                   realtimeSent, localWrites, remoteInserts, session, endSaves,
                   insertCalls, storeVars, feedbackVars, appFlow, histVars>>

(***************************************************************************)
(* handleSaveSession, lines 442-468, and the start of a live session       *)
(***************************************************************************)
NotSaving == [at |-> "idle", case |-> NULL]

\* The Save button: lines 443-454, up to await supabase.auth.getUser().
handleSaveSession ==
    /\ Mounted
    /\ savePc = NotSaving
    /\ clock <= LastId
    /\ \E ok \in BOOLEAN :
          saveSessionToStorage([id |-> NewSessionId(resumedFrom), feedback |-> "none"], ok)
    /\ clock' = clock + 1
    /\ savePc' = [at |-> "awaitUser", case |-> caseId]
    /\ UNCHANGED <<appVars, stateVars, effectVars, inputRefs, inputObjs, outputVars,
                   timerVars, sessionRef, now, ws, msgVars, pending, toolVars,
                   realtimeSent, endPc, localWrites, remoteInserts, session,
                   endSaves, insertCalls, feedbackVars, resumedFrom, histVars>>

\* What handleSaveSession leaves alone after its first await.
saveFrame == <<appVars, stateVars, effectVars, inputRefs, inputObjs, outputVars,
               timerVars, sessionRef, now, ws, msgVars, pending, toolVars,
               realtimeSent, endPc, localWrites, session, endSaves, insertCalls,
               storeVars, feedbackVars, resumedFrom, histVars>>

\* getUser settles with a value, lines 454-455; without an insert to make,
\* line 467 shows the toast.
saveGetUserResolved(user) ==
    /\ savePc.at = "awaitUser"
    /\ savePc' = IF InsertWanted(user, savePc.case)
                 THEN [savePc EXCEPT !.at = "awaitInsert"]
                 ELSE NotSaving
    /\ UNCHANGED <<remoteInserts, saveFrame>>

\* The insert settles with a value, lines 464-467.
saveInsertResolved(ok) ==
    /\ savePc.at = "awaitInsert"
    /\ remoteInserts' = IF ok THEN remoteInserts + 1 ELSE remoteInserts
    /\ savePc' = NotSaving
    /\ UNCHANGED saveFrame

\* An awaited remote call of handleSaveSession rejects: the function ends.
saveCallRejected ==
    /\ savePc.at \in {"awaitUser", "awaitInsert"}
    /\ savePc' = NotSaving
    /\ UNCHANGED <<remoteInserts, saveFrame>>

\* A live session is started from the landing, setup, case or history
\* screens: handleConfigComplete (line 1315), handleStartCaseSession (line
\* 1347) or, resuming a saved session, handleLoadSession (line 1320).  A new
\* LiveSession mounts: its state and refs are the initial ones and its init
\* effect runs up to await getUserMedia.  The counters of the end flow are
\* those of the mounted LiveSession.
startLiveSession(case, saved) ==
    /\ view = "landing"
    /\ view' = "live-interview"
    /\ caseId' = case
    /\ resumedFrom' = saved
    /\ status' = "connecting"
    /\ isMuted' = FALSE /\ mutedAt' = "none"
    /\ notebook' = DefaultNotebook
    /\ attempt' = 1
    /\ initPc' = [a \in Attempts |-> IF a = 1 THEN "awaitMic" ELSE "idle"]
    /\ closureMuted' = [a \in Attempts |-> FALSE]
    /\ mediaStreamRef' = NULL /\ inputAudioContextRef' = NULL
    /\ outputAudioContextRef' = NULL
    /\ scriptProcessorRef' = NULL /\ sourceNodeRef' = NULL
    /\ sessionRef' = NULL /\ nextStartTimeRef' = 0 /\ sourcesRef' = {}
    /\ timerIntervalRef' = NULL
    /\ endPc' = "idle" /\ localWrites' = 0 /\ endSaves' = 0 /\ insertCalls' = 0
    /\ cut' = "none"
    /\ inputGainRef' = GainScale
    /\ UNCHANGED <<completedSession, liveStreams, openInputs, openOutputs,
                   liveProcessors, runningTimers, tornDown, now, chunks, ws,
                   msgVars, pending, toolVars, lastInput, pcm, remoteInserts,
                   session, storeVars, feedbackVars, savePc, histVars>>

(***************************************************************************)
(* The live session with its environment: connection attempts, the         *)
(* callbacks of their sessions, tool calls, the microphone path, the end   *)
(* of the session.  Messages carry tool calls here; their audio is the     *)
(* subject of AudioSpec.                                                   *)
(***************************************************************************)
\* A buffer of a quiet microphone.
Silence == {0}

ToolMessages == {m \in Messages : m.audio = 0 /\ ~m.interrupted /\ ~m.turnComplete}

Next ==
    \/ toggleAudioSetting
    \/ \E a \in Attempts : getUserMediaRejected(a)
    \/ \E a \in Attempts : getUserMediaResolved(a)
    \/ \E a \in Attempts : onopen(a)
    \/ \E a \in Attempts : sessionPromiseThen(a)
    \/ \E a \in Attempts : sessionPromiseRejected(a)
    \/ \E a \in Attempts : onerror(a)
    \/ \E a \in Attempts : onclose(a)
    \/ \E p \in Attempts, x \in Silence : onaudioprocess(p, x)
    \/ \E a \in Attempts, m \in ToolMessages : onmessage(a, m)

\* A live session started from Setup: no case is selected (line 1308-1312).
\* Local storage of a browser that has not stored a session yet.
EmptyStorage ==
    /\ sessionsItem = NoItem
    /\ currentItem = NoSession
    /\ clock = 1

Init == Mount(NULL) /\ EmptyStorage

Spec == Init /\ [][Next]_vars

(***************************************************************************)
(* One connection attempt from mount to the feedback view: the user's mute *)
(* and End Session controls, tool-call messages and the microphone path,   *)
(* for a session started with or without a selected case.                  *)
(***************************************************************************)
\* The message that closes a turn of the model.
TurnMessages ==
    {m \in Messages : m.audio = 0 /\ ~m.interrupted /\ m.calls = <<>> /\ m.turnComplete}

SessionInit == (\E case \in {NULL, 1} : Mount(case)) /\ EmptyStorage

SessionNext ==
    \/ toggleMute
    \/ handleEndSession
    \/ \E u \in BOOLEAN : getUserResolved(u)
    \/ \E ok \in BOOLEAN : insertResolved(ok)
    \/ remoteCallRejected
    \/ \E o \in Outcomes : generateFeedbackSettled(o)
    \/ \E a \in Attempts : getUserMediaRejected(a)
    \/ \E a \in Attempts : getUserMediaResolved(a)
    \/ \E a \in Attempts : onopen(a)
    \/ \E a \in Attempts : sessionPromiseThen(a)
    \/ \E a \in Attempts : onerror(a)
    \/ \E a \in Attempts : onclose(a)
    \/ \E p \in Attempts, x \in Silence : onaudioprocess(p, x)
    \/ \E a \in Attempts, m \in ToolMessages \cup TurnMessages : onmessage(a, m)

SessionSpec == SessionInit /\ [][SessionNext]_vars

(***************************************************************************)
(* Playback: one connected session receiving audio and interruptions,      *)
(* until the server closes it.                                             *)
(***************************************************************************)
AudioMessages == {m \in Messages : m.calls = <<>> /\ ~m.turnComplete}

AudioNext ==
    \/ \E a \in Attempts : getUserMediaResolved(a)
    \/ \E a \in Attempts : onopen(a)
    \/ \E a \in Attempts : sessionPromiseThen(a)
    \/ \E a \in Attempts : onclose(a)
    \/ \E a \in Attempts, m \in AudioMessages : onmessage(a, m)
    \/ \E p \in pending, ok \in BOOLEAN : decodeAudioDataDone(p, ok)
    \/ \E i \in DOMAIN chunks : sourceOnended(i)
    \/ \E c \in Attempts : Tick(c)

AudioSpec == Init /\ [][AudioNext]_vars

(***************************************************************************)
(* The notebook under updateNotebook calls: one connected session whose    *)
(* messages carry one call each, with every combination of the declared    *)
(* arguments (lines 594-606).                                              *)
(***************************************************************************)
MaxTimeline == 2   \* timeline entries appended
MaxNotes == 2      \* trial notes held at once

NoArgs == [f \in {} |-> ""]
Opt(f, values) == {NoArgs} \cup {f :> v : v \in values}

DeclaredArgs ==
    {t @@ p @@ k @@ c @@ n :
        t \in Opt("caseTitle", {"Acme"}),
        p \in Opt("currentPhase", {"Analysis"}),
        k \in Opt("keyData", {<<>>, <<"revenue">>}),
        c \in Opt("candidateFramework", {<<"profit tree">>}),
        n \in Opt("newTimelineEvent", {"", "Framework Accepted", "Math Started"})}

NotebookMessages ==
    {[audio |-> 0, interrupted |-> FALSE, turnComplete |-> FALSE,
      calls |-> <<[id |-> 1, name |-> "updateNotebook", args |-> g]>>] : g \in DeclaredArgs}

NotebookNext ==
    \/ \E a \in Attempts : getUserMediaResolved(a)
    \/ \E a \in Attempts : onopen(a)
    \/ \E a \in Attempts : sessionPromiseThen(a)
    \/ \E a \in Attempts, m \in NotebookMessages :
          /\ Len(notebook["caseTimeline"]) < MaxTimeline
          /\ onmessage(a, m)

NotebookSpec == Init /\ [][NotebookNext]_vars

(***************************************************************************)
(* The notebook under tool calls and the user's trial notes, interleaved.  *)
(***************************************************************************)
Notes == {"", "object to exhibit", "ask for dates"}

\* updateNotebook calls with a title, a phase and a timeline event.
NotesMessages ==
    {m \in NotebookMessages :
        /\ ~Has(m.calls[1].args, "keyData")
        /\ ~Has(m.calls[1].args, "candidateFramework")}

NotesNext ==
    \/ \E a \in Attempts : getUserMediaResolved(a)
    \/ \E a \in Attempts : onopen(a)
    \/ \E a \in Attempts : sessionPromiseThen(a)
    \/ \E a \in Attempts, m \in NotesMessages :
          /\ Len(notebook["caseTimeline"]) < MaxTimeline
          /\ onmessage(a, m)
    \/ \E note \in Notes :
          /\ Len(notebook["trialNotes"]) < MaxNotes
          /\ addTrialNote(note)
    \/ \E index \in 1..MaxNotes : removeTrialNote(index)

NotesSpec == Init /\ [][NotesNext]_vars

(***************************************************************************)
(* The session store on its own: saveSession and deleteSession applied to  *)
(* stores of every size around the limit of 50, with ids already stored    *)
(* and ids not stored yet.                                                 *)
(***************************************************************************)
\* Everything but the two items of local storage.
nonStorage == <<appVars, stateVars, effectVars, inputRefs, inputObjs, outputVars,
                timerVars, sessionRef, now, ws, msgVars, pending, toolVars,
                realtimeSent, endPc, localWrites, remoteInserts, session,
                endSaves, insertCalls, clock, feedbackVars, appFlow, histVars>>

\* A store of n sessions, most recent first: ids n down to 1.
StoredSessions(n) == [k \in 1..n |-> [id |-> n + 1 - k, feedback |-> "none"]]

StoreSizes == {0, 1, SliceLimit - 1, SliceLimit}

SessionIds == {1, SliceLimit} \cup (SliceLimit + 1 .. SliceLimit + MaxNew)

StoredRecords == [id : SessionIds, feedback : {"none", "parsed"}]

\* A caller of saveSession (Index.tsx lines 423, 451, 1336).
StorageSave(s, ok) ==
    /\ saveSessionToStorage(s, ok)
    /\ UNCHANGED nonStorage

\* HistoryView's delete button (lines 14-18 of the history view).
StorageDelete(sessionId, ok) ==
    /\ sessionsItem' = IF ok THEN deleteSession(sessionsItem, sessionId) ELSE sessionsItem
    /\ UNCHANGED <<currentItem, nonStorage>>

StorageInit ==
    /\ Mount(NULL)
    /\ clock = 1
    /\ \E n \in StoreSizes :
          /\ sessionsItem = IF n = 0 THEN NoItem
                            ELSE [set |-> TRUE, list |-> StoredSessions(n)]
          /\ currentItem = IF n = 0 THEN NoSession ELSE StoredSessions(n)[1]

StorageNext ==
    \/ \E s \in StoredRecords, ok \in BOOLEAN : StorageSave(s, ok)
    \/ \E id \in SessionIds, ok \in BOOLEAN : StorageDelete(id, ok)

StorageSpec == StorageInit /\ [][StorageNext]_vars

(***************************************************************************)
(* The application over several sessions: sessions are started, resumed,   *)
(* saved and ended, feedback is attached, and stored sessions are deleted  *)
(* from the history.  The callbacks of the remote session are the subject  *)
(* of the specifications above and are left out here.                      *)
(***************************************************************************)
\* The saved sessions a user can resume: the last session (Setup reads
\* getLastSession, line 187) and, of the history list, the first, second
\* and last entries.
Resumable ==
    LET list == getAllSessions(sessionsItem)
    IN  {NULL, getLastSession(currentItem).id}
           \cup {list[k].id : k \in DOMAIN list \cap {1, 2, Len(list)}}

\* The browser holds no stored session, or a full store whose oldest
\* session has feedback attached; Date.now() is past every stored id.
AppInit ==
    /\ \E case \in {NULL, 1} : Mount(case)
    /\ clock = SliceLimit + 1
    /\ \E n \in {0, SliceLimit} :
          IF n = 0
          THEN sessionsItem = NoItem /\ currentItem = NoSession
          ELSE /\ sessionsItem =
                     [set |-> TRUE,
                      list |-> [StoredSessions(n) EXCEPT ![n].feedback = "parsed"]]
               /\ currentItem = StoredSessions(n)[1]

AppNext ==
    \/ \E case \in {NULL, 1}, saved \in Resumable : startLiveSession(case, saved)
    \/ handleSaveSession
    \/ \E u \in BOOLEAN : saveGetUserResolved(u)
    \/ \E ok \in BOOLEAN : saveInsertResolved(ok)
    \/ saveCallRejected
    \/ handleEndSession
    \/ \E u \in BOOLEAN : getUserResolved(u)
    \/ \E ok \in BOOLEAN : insertResolved(ok)
    \/ remoteCallRejected
    \/ \E o \in Outcomes : generateFeedbackSettled(o)
    \/ \E id \in SessionIds, ok \in BOOLEAN : view = "landing" /\ StorageDelete(id, ok)

AppSpec == AppInit /\ [][AppNext]_vars

(***************************************************************************)
(* The ways a live session is started, with the selection state each       *)
(* leaves for LiveSession's props (lines 1392-1399): selectedCaseId and    *)
(* initialNotebook, here the saved session the notebook was taken from.    *)
(***************************************************************************)
\* Landing's start button: startSetup (lines 1308-1313) clears the
\* selection, then Setup calls handleConfigComplete (lines 1315-1318).
startFromSetup == startLiveSession(NULL, NULL)

\* A template is chosen: the templates route sets the config and the view
\* 'setup' (lines 1405-1412) without startSetup, then Setup calls
\* handleConfigComplete.
startFromTemplate == startLiveSession(caseId, resumedFrom)

\* handleLoadSession, lines 1320-1324, called by HistoryView's resume
\* button (line 1418): config and initialNotebook are set, nothing else.
handleLoadSession(saved) == startLiveSession(caseId, saved)

\* handleSelectCase (lines 1341-1345) and then handleStartCaseSession
\* (lines 1347-1355): the case id, the case context and the config are set.
handleStartCaseSession(case) == startLiveSession(case, resumedFrom)

(***************************************************************************)
(* Live sessions started one after another in these ways, each ended and   *)
(* followed by its feedback.                                               *)
(***************************************************************************)
Cases == {1}

SelectionNext ==
    \/ startFromSetup
    \/ startFromTemplate
    \/ \E saved \in Resumable \ {NULL} : handleLoadSession(saved)
    \/ \E case \in Cases : handleStartCaseSession(case)
    \/ handleEndSession
    \/ \E u \in BOOLEAN : getUserResolved(u)
    \/ \E ok \in BOOLEAN : insertResolved(ok)
    \/ \E o \in Outcomes : generateFeedbackSettled(o)

SelectionSpec == AppInit /\ [][SelectionNext]_vars

(***************************************************************************)
(* CaseBuddyApp's auth effect, lines 1281-1301                             *)
(***************************************************************************)
\* The view read by the onAuthStateChange callback.  The effect has no
\* dependencies (line 1301), so the callback is the one created by the first
\* render and reads the view of that render, the initial 'auth' (line 1272).
AuthEffectView == "auth"

\* Lines 1293-1297: the view the callback leaves.
AuthViewAfter(hasSession) ==
    IF hasSession /\ AuthEffectView = "auth" THEN "landing"
    ELSE IF ~hasSession THEN "auth" ELSE view

\* An auth-state-change event, lines 1291-1298 (isAuthenticated, set at
\* line 1292, is read nowhere).  When the view leaves 'live-interview',
\* LiveSession unmounts and its effect cleanup runs stopSession.
onAuthStateChange(hasSession) ==
    /\ view' = AuthViewAfter(hasSession)
    /\ IF Mounted /\ view' # "live-interview"
       THEN stopSession
       ELSE UNCHANGED <<inputRefs, inputObjs, outputVars, timerVars>>
    /\ UNCHANGED <<completedSession, caseId, stateVars, effectVars, sessionRef, now,
                   ws, msgVars, pending, toolVars, realtimeSent, endVars, histVars>>

\* Auth's onSuccess, line 1359.
authSuccess ==
    /\ view = "auth"
    /\ view' = "landing"
    /\ UNCHANGED <<completedSession, caseId, stateVars, effectVars, inputRefs,
                   inputObjs, outputVars, timerVars, sessionRef, now, ws, msgVars,
                   pending, toolVars, realtimeSent, endVars, histVars>>

(***************************************************************************)
(* The app's views under auth events: live sessions are started, ended    *)
(* and followed by their feedback, while the auth client reports sign-ins, *)
(* token refreshes and sign-outs.  The callbacks of the remote session are *)
(* left out here.                                                          *)
(***************************************************************************)
AuthInit ==
    /\ Mount(NULL)
    /\ sessionsItem = NoItem /\ currentItem = NoSession
    /\ clock = SliceLimit + 1

AuthNext ==
    \/ \E hasSession \in BOOLEAN : onAuthStateChange(hasSession)
    \/ authSuccess
    \/ startFromSetup
    \/ handleEndSession
    \/ \E u \in BOOLEAN : getUserResolved(u)
    \/ \E o \in Outcomes : generateFeedbackSettled(o)

AuthSpec == AuthInit /\ [][AuthNext]_vars

(***************************************************************************)
(* Playback with teardowns: the audio path of AudioSpec while the user     *)
(* changes an audio setting, which tears the session down and starts the   *)
(* next attempt.                                                           *)
(***************************************************************************)
\* Messages with a chunk of the shortest duration, or an interruption.
PlaybackMessages == {m \in AudioMessages : m.audio = 1 \/ (m.audio = 0 /\ m.interrupted)}

PlaybackNext ==
    \/ toggleAudioSetting
    \/ \E a \in Attempts : getUserMediaResolved(a)
    \/ \E a \in Attempts : onopen(a)
    \/ \E a \in Attempts : sessionPromiseThen(a)
    \/ \E a \in Attempts, m \in PlaybackMessages : onmessage(a, m)
    \/ \E p \in pending, ok \in BOOLEAN : decodeAudioDataDone(p, ok)
    \/ \E i \in DOMAIN chunks : sourceOnended(i)
    \/ \E c \in Attempts : Tick(c)

PlaybackSpec == Init /\ [][PlaybackNext]_vars

(***************************************************************************)
(* The microphone path on its own: one connected session, the gain slider  *)
(* and buffers of every sample value.                                      *)
(***************************************************************************)
EncodeNext ==
    \/ \E a \in Attempts : getUserMediaResolved(a)
    \/ \E a \in Attempts : onopen(a)
    \/ \E a \in Attempts : sessionPromiseThen(a)
    \/ \E g \in Gains : setInputGain(g)
    \/ \E p \in Attempts, x \in Samples : onaudioprocess(p, x)

EncodeSpec == Init /\ [][EncodeNext]_vars

(***************************************************************************)
(* Properties                                                              *)
(***************************************************************************)

\* C1: every chunk starts at max(output clock, nextStartTime) as read when
\* it is scheduled; and when neither an interruption nor a teardown lies
\* between two consecutively scheduled chunks, the later one starts no
\* earlier than the earlier one starts and no earlier than it ends.
C1_ChunksDoNotOverlap ==
    \A i \in DOMAIN chunks :
        /\ chunks[i].start = Max(chunks[i].nowAt, chunks[i].cursorAt)
        /\ (i > 1 /\ chunks[i].afterCut = "none") =>
              /\ chunks[i].start >= chunks[i - 1].start
              /\ chunks[i].start >= chunks[i - 1].start + chunks[i - 1].dur

\* A chunk that arrived while its predecessor was still scheduled ahead of
\* the clock, and was queued behind it.
C1_Witness ==
    \E i \in DOMAIN chunks :
        /\ i > 1
        /\ chunks[i].afterCut = "none"
        /\ chunks[i].nowAt < chunks[i].cursorAt
        /\ chunks[i].start = chunks[i - 1].start + chunks[i - 1].dur

\* An onmessage invocation reaches lines 666-674 with the interrupted flag
\* set: at once when it has no audio to decode, else when its decode settles.
InterruptHandled ==
    \/ \E a \in Attempts, m \in AudioMessages :
          /\ m.interrupted
          /\ ~(m.audio > 0 /\ outputAudioContextRef # NULL)
          /\ onmessage(a, m)
    \/ \E p \in pending, ok \in BOOLEAN :
          /\ p.interrupted
          /\ decodeAudioDataDone(p, ok)

\* C2: handling an interrupted message stops every source of the live set,
\* empties the set and resets nextStartTime to 0; and the first chunk
\* scheduled after an interruption starts at the output clock's time.
C2_InterruptionClearsSchedule ==
    /\ [][InterruptHandled =>
            /\ \A i \in sourcesRef : chunks'[i].st = "stopped"
            /\ sourcesRef' = {}
            /\ nextStartTimeRef' = 0]_vars
    /\ [](\A i \in DOMAIN chunks :
            chunks[i].afterCut = "interrupted" => chunks[i].start = chunks[i].nowAt)

\* A chunk was stopped by an interruption while the cursor was ahead of the
\* clock, and the next chunk started at the clock, before the stale cursor.
C2_Witness ==
    \E i \in DOMAIN chunks :
        /\ i > 1
        /\ chunks[i].afterCut = "interrupted"
        /\ chunks[i - 1].st = "stopped"
        /\ chunks[i].start = chunks[i].nowAt
        /\ chunks[i].start < chunks[i - 1].start + chunks[i - 1].dur

\* C3: for every updateNotebook call of the message handled last, exactly
\* one tool response with that call's id was sent, by that handler and to
\* the session the call came from; and every response sent answers a call
\* that session issued.
C3_EveryCallAcknowledged ==
    LET calls == toolCalls.calls
        Acks(id) == {j \in DOMAIN toolResponses :
                        toolResponses[j].id = id /\ toolResponses[j].to = toolCalls.sess}
    IN  /\ \A k \in DOMAIN calls :
              calls[k].name = "updateNotebook" => Cardinality(Acks(calls[k].id)) = 1
        /\ \A j \in DOMAIN toolResponses :
              /\ toolResponses[j].to = toolCalls.sess
              /\ \E k \in DOMAIN calls : calls[k].id = toolResponses[j].id

\* C4: while the user has mute switched on, having switched it on during a
\* connected session, no audio-process callback sends a microphone frame.
C4_NoFrameWhileMuted ==
    lastInput.kind = "frame" => lastInput.muted # "connected"

\* The fields an updateNotebook argument overwrites.
OverwriteFields == {"caseTitle", "currentPhase", "keyData", "candidateFramework"}

Overwritten(args) ==
    \A f \in OverwriteFields :
        notebook'[f] = IF Has(args, f) THEN args[f] ELSE notebook[f]

\* C5 as stated: present fields overwrite, absent ones keep their value, and
\* the timeline is extended by newTimelineEvent whenever it is present.
C5_TimelineExtendedWhenPresent ==
    [][\A a \in Attempts, m \in NotebookMessages :
          onmessage(a, m) =>
             LET args == m.calls[1].args
             IN  /\ Overwritten(args)
                 /\ notebook'["caseTimeline"] =
                       IF Has(args, "newTimelineEvent")
                       THEN Append(notebook["caseTimeline"], args["newTimelineEvent"])
                       ELSE notebook["caseTimeline"]]_vars

\* C5, amended: present fields overwrite, absent ones keep their value, and
\* the timeline is extended by newTimelineEvent when it is present and not
\* the empty string; otherwise the timeline is unchanged.
C5_TimelineExtendedWhenNonEmpty ==
    [][\A a \in Attempts, m \in NotebookMessages :
          onmessage(a, m) =>
             LET args == m.calls[1].args
             IN  /\ Overwritten(args)
                 /\ notebook'["caseTimeline"] =
                       IF Has(args, "newTimelineEvent") /\ args["newTimelineEvent"] # ""
                       THEN Append(notebook["caseTimeline"], args["newTimelineEvent"])
                       ELSE notebook["caseTimeline"]]_vars

\* Two calls have extended the timeline in order, the last one also setting
\* the title while leaving the phase as it was.
C5_Witness ==
    /\ toolCalls.calls # <<>>
    /\ DOMAIN toolCalls.calls[1].args = {"caseTitle", "newTimelineEvent"}
    /\ notebook["caseTitle"] = "Acme"
    /\ notebook["currentPhase"] = "Setup"
    /\ notebook["caseTimeline"] = <<"Framework Accepted", "Math Started">>

OtherFields == OverwriteFields \cup {"trialNotes"}

\* C6 as stated: a call with only newTimelineEvent appends that value and
\* leaves the other notebook fields unchanged.
C6_TimelineOnlyCallAppends ==
    [][\A a \in Attempts, m \in NotebookMessages :
          (onmessage(a, m) /\ DOMAIN m.calls[1].args = {"newTimelineEvent"}) =>
             /\ notebook'["caseTimeline"] =
                   Append(notebook["caseTimeline"], m.calls[1].args["newTimelineEvent"])
             /\ \A f \in OtherFields : notebook'[f] = notebook[f]]_vars

\* C6, amended: a call whose only argument is a non-empty newTimelineEvent
\* appends exactly that value and leaves the other notebook fields unchanged.
C6_NonEmptyTimelineOnlyCallAppends ==
    [][\A a \in Attempts, m \in NotebookMessages :
          (/\ onmessage(a, m)
           /\ DOMAIN m.calls[1].args = {"newTimelineEvent"}
           /\ m.calls[1].args["newTimelineEvent"] # "") =>
             /\ notebook'["caseTimeline"] =
                   Append(notebook["caseTimeline"], m.calls[1].args["newTimelineEvent"])
             /\ \A f \in OtherFields : notebook'[f] = notebook[f]]_vars

\* A timeline-only call has appended its event to a timeline that already
\* held one, on a notebook whose title an earlier call had set.
C6_Witness ==
    /\ toolCalls.calls # <<>>
    /\ DOMAIN toolCalls.calls[1].args = {"newTimelineEvent"}
    /\ toolCalls.calls[1].args["newTimelineEvent"] = "Math Started"
    /\ notebook["caseTitle"] = "Acme"
    /\ notebook["caseTimeline"] = <<"Framework Accepted", "Math Started">>

\* C7: the status is 'error' after each of the three failures: getUserMedia
\* rejects, the connect promise rejects, the transport error callback fires.
C7_FailureSetsError ==
    [][\A a \in Attempts :
          (getUserMediaRejected(a) \/ sessionPromiseRejected(a) \/ onerror(a))
             => status' = "error"]_vars

\* A callback of attempt a's session, or a continuation of its init().
CallbackOf(a) ==
    \/ onopen(a)
    \/ sessionPromiseThen(a)
    \/ sessionPromiseRejected(a)
    \/ onerror(a)
    \/ onclose(a)
    \/ \E m \in ToolMessages : onmessage(a, m)
    \/ getUserMediaResolved(a)
    \/ getUserMediaRejected(a)

\* C8: once a failure of an attempt has set the status to 'error', no
\* callback of that attempt changes the status; and no attempt calls
\* connect more than once.
C8_ErrorIsTerminalForAttempt ==
    /\ [][\A a \in Attempts :
            (status = "error" /\ errorAttempt = a /\ CallbackOf(a)) => status' = "error"]_vars
    /\ [](\A a \in Attempts : connects[a] <= 1)

\* The transport of an attempt failed after it had connected, then closed:
\* the status is still 'error'.
C8_Witness ==
    \E a \in Attempts :
        /\ status = "error"
        /\ errorAttempt = a
        /\ connects[a] = 1
        /\ initPc[a] = "ready"
        /\ ws[a] = "closed"

\* Everything stopSession releases is released.
TornDown ==
    /\ scriptProcessorRef = NULL /\ sourceNodeRef = NULL
    /\ mediaStreamRef = NULL /\ inputAudioContextRef = NULL
    /\ outputAudioContextRef = NULL
    /\ liveProcessors = {} /\ liveStreams = {}
    /\ openInputs = {} /\ openOutputs = {}
    /\ sourcesRef = {}
    /\ \A i \in DOMAIN chunks : chunks[i].st # "live"
    /\ nextStartTimeRef = 0
    /\ timerIntervalRef = NULL /\ runningTimers = {}

\* C9: from the moment the user ends the session, the session stays torn
\* down, whatever callbacks arrive.
C9_TornDownAfterEnd ==
    endPc # "idle" => TornDown

\* C10: when handleEndSession has run to its end, by returning or by an
\* awaited call failing, the session was handed to onEnd and the view is
\* 'feedback'.
C10_EndFlowCompletes ==
    endPc \in {"done", "threw"} => (completedSession = 1 /\ view = "feedback")

\* C11: no tool response and no realtime input is sent to a session that
\* was torn down (it was the current session when stopSession ran).
C11_NoSendAfterTeardown ==
    [][/\ toolResponses' # toolResponses =>
             \A j \in DOMAIN toolResponses' : toolResponses'[j].to \notin tornDown
       /\ lastInput' # lastInput => lastInput'.to \notin tornDown]_vars

C13_AtMostFifty ==
    Len(getAllSessions(sessionsItem)) <= SliceLimit

\* A session with a new id was saved into a full store: the list is still
\* 50 long and starts with the new session.
C13_Witness ==
    /\ Len(getAllSessions(sessionsItem)) = SliceLimit
    /\ getAllSessions(sessionsItem)[1].id > SliceLimit

\* C14: saveSession of a session whose id is not stored puts it at index 0,
\* followed by the stored sessions in their order, of which only those
\* that would lie beyond the 50th place, at the tail, are dropped.
C14_NewSessionFirst ==
    [][\A s \in StoredRecords :
          (StorageSave(s, TRUE) /\ FindIndex(getAllSessions(sessionsItem), s.id) = 0) =>
             LET old == getAllSessions(sessionsItem)
                 new == getAllSessions(sessionsItem')
             IN  /\ new[1] = s
                 /\ Len(new) = Min(Len(old) + 1, SliceLimit)
                 /\ \A k \in 2..Len(new) : new[k] = old[k - 1]]_vars

\* A new session was saved into a full store: it is first, the oldest
\* session (id 1) was dropped and the next oldest is now last.
C14_Witness ==
    LET list == getAllSessions(sessionsItem)
    IN  /\ Len(list) = SliceLimit
        /\ list[1].id = SliceLimit + 1
        /\ list[2].id = SliceLimit
        /\ list[SliceLimit].id = 2

\* The step removes the stored record at place k in one of the two ways the
\* claim allows: deleteSession of its id, or eviction from the last place of
\* a full list by a session with a new id.
RemovedAsAllowed(k) ==
    LET old == getAllSessions(sessionsItem)
        new == getAllSessions(sessionsItem')
    IN  \/ \E ok \in BOOLEAN : StorageDelete(old[k].id, ok)
        \/ /\ k = SliceLimit
           /\ Len(new) = SliceLimit
           /\ FindIndex(old, new[1].id) = 0
           /\ \A m \in 2..SliceLimit : new[m] = old[m - 1]

\* C15: feedback is attached by a saveSession under the completed session's
\* id, which replaces the stored record in its place; and a stored record
\* that has feedback is never changed by a later step of the application:
\* it stays in the list as it is, or it is removed by deleteSession or by
\* eviction past 50.
C15_FeedbackRecordImmutable ==
    /\ [][\A o \in Outcomes :
            LET old == getAllSessions(sessionsItem)
                new == getAllSessions(sessionsItem')
            IN  (/\ generateFeedbackSettled(o)
                 /\ sessionsItem' # sessionsItem
                 /\ FindIndex(old, session) > 0) =>
                   new = [old EXCEPT ![FindIndex(old, session)].feedback = ReportFor(o)]]_vars
    /\ [][LET old == getAllSessions(sessionsItem)
              new == getAllSessions(sessionsItem')
          IN  \A k \in DOMAIN old :
                 old[k].feedback # "none" =>
                    \/ /\ \E m \in DOMAIN new : new[m] = old[k]
                       /\ \A m \in DOMAIN new : new[m].id = old[k].id => new[m] = old[k]
                    \/ RemovedAsAllowed(k)]_vars

\* A session got its feedback attached; afterwards that session was resumed
\* and ended again, and its stored record is as it was, behind the record
\* of the resumed session.
C15_Witness ==
    LET list == getAllSessions(sessionsItem)
    IN  /\ Len(list) >= 2
        /\ list[2] = [id |-> SliceLimit + 1, feedback |-> "fallback"]
        /\ list[1].id = SliceLimit + 2
        /\ resumedFrom = SliceLimit + 1
        /\ endPc = "done"

\* C16: when feedback generation fails (the request throws, the reply holds
\* no JSON object, or its JSON does not parse), the fallback report is the
\* feedback FeedbackView displays, onComplete was called exactly once and
\* the loading flag is false.
C16_FallbackDisplayed ==
    [][\A o \in Outcomes \ {"report"} :
          generateFeedbackSettled(o) =>
             /\ feedback' = "fallback"
             /\ onCompleteCalls' = 1
             /\ view' = "feedback"
             /\ loading' = FALSE]_vars

\* C17: the transcript holds one entry for each completed turn of the live
\* session, in order: it is as long as the number of turns completed.
C17_TranscriptHoldsTurns ==
    Len(transcript) = turns

C19_ScheduledInArrivalOrder ==
    (/\ cut = "none"
     /\ \A p \in pending : ~p.interrupted
     /\ \A k \in DOMAIN chunks : chunks[k].afterCut = "none")
    => \A i, j \in DOMAIN chunks :
          chunks[i].h < chunks[j].h => chunks[i].start <= chunks[j].start

\* The output sources that were scheduled and have neither finished playing
\* nor been stopped.
LiveSources == {i \in DOMAIN chunks : chunks[i].st = "live"}

\* C20: the live source set holds exactly the sources that were scheduled
\* and have neither finished playing nor been stopped by an interruption or
\* a teardown; and a source's completion callback removes that source and
\* no other.
C20_LiveSetIsScheduledUnfinished ==
    /\ [](sourcesRef = LiveSources)
    /\ [][\A i \in DOMAIN chunks :
             sourceOnended(i) => sourcesRef' = sourcesRef \ {i} /\ i \in sourcesRef]_vars

\* One source has finished and left the set while another, scheduled behind
\* it, is still in it.
C20_Witness ==
    \E i, j \in DOMAIN chunks :
        /\ chunks[i].st = "ended"
        /\ chunks[j].st = "live"
        /\ sourcesRef = {j}

\* C21: an attempt that was torn down by a restart while its microphone
\* acquisition or its handshake was pending holds, when the pending step
\* finishes, no microphone stream, audio context, processor node, running
\* timer or session reference, and sends no message.
C21_CancelledAttemptHoldsNothing ==
    [][\A a \in Attempts :
          a < attempt =>
             /\ getUserMediaResolved(a) =>
                   a \notin (liveStreams' \cup openInputs' \cup openOutputs'
                                \cup liveProcessors')
             /\ onopen(a) => a \notin runningTimers'
             /\ sessionPromiseThen(a) => (sessionRef' # a /\ lastInput' = lastInput)]_vars

\* C22: no chunk whose message arrived before an interruption, and whose
\* decode was still in flight when the interruption was handled, is started
\* or added to the live set afterwards.
C22_OvertakenChunkNotScheduled ==
    [][\A p \in pending :
          (p.overtaken /\ decodeAudioDataDone(p, TRUE)) =>
             (chunks' = chunks /\ sourcesRef' = sourcesRef)]_vars

\* C23: every microphone frame is sent to the session created by the
\* attempt whose processor captured it, also after a restart by an
\* audio-setting toggle and before the new handshake resolves.
C23_FrameGoesToOwnSession ==
    lastInput.kind = "frame" => lastInput.to = lastInput.from

\* C24: a remote session is closed when its attempt is torn down, so at
\* most one remote session of the live-session view is open at any time.
C24_AtMostOneSessionOpen ==
    /\ \A a \in tornDown : ws[a] # "open"
    /\ Cardinality({a \in Attempts : ws[a] = "open"}) <= 1

\* C25: whenever the status is 'connected', the microphone stream, the
\* processor node and the output audio context of the session exist and the
\* duration timer is running.
C25_ConnectedHasAudio ==
    status = "connected" =>
        /\ mediaStreamRef # NULL /\ mediaStreamRef \in liveStreams
        /\ scriptProcessorRef # NULL /\ scriptProcessorRef \in liveProcessors
        /\ outputAudioContextRef # NULL /\ outputAudioContextRef \in openOutputs
        /\ timerIntervalRef # NULL /\ timerIntervalRef \in runningTimers

\* C26: tool-call merges and trial-note changes, in any order, all take
\* effect: an updateNotebook call with declared fields leaves trialNotes as
\* it is, and addTrialNote / removeTrialNote change trialNotes only, adding
\* the note at the end or removing the note at the index.
C26_NotesAndToolCallsCompose ==
    [][/\ \A a \in Attempts, m \in NotesMessages :
             onmessage(a, m) => notebook'["trialNotes"] = notebook["trialNotes"]
       /\ \A note \in Notes \ {""} :
             addTrialNote(note) =>
                /\ notebook'["trialNotes"] = notebook["trialNotes"] \o <<note>>
                /\ \A f \in DOMAIN notebook \ {"trialNotes"} : notebook'[f] = notebook[f]
       /\ \A index \in 1..MaxNotes :
             removeTrialNote(index) =>
                /\ Len(notebook'["trialNotes"]) = Len(notebook["trialNotes"]) - 1
                /\ \A k \in DOMAIN notebook'["trialNotes"] :
                      notebook'["trialNotes"][k] =
                         notebook["trialNotes"][IF k < index THEN k ELSE k + 1]
                /\ \A f \in DOMAIN notebook \ {"trialNotes"} : notebook'[f] = notebook[f]]_vars

\* Two tool calls and the user's notes have all left their mark: the title
\* and both timeline events of the calls, and a note that followed one that
\* was removed.
C26_Witness ==
    /\ notebook["caseTitle"] = "Acme"
    /\ notebook["caseTimeline"] = <<"Framework Accepted", "Math Started">>
    /\ notebook["trialNotes"] = <<"ask for dates", "object to exhibit">>
    /\ toolCalls.calls # <<>>

\* C27: an auth-state-change event with a session changes the view only
\* when the view is 'auth', to 'landing'; in every other view it leaves the
\* view as it is.  An event without a session sets the view to 'auth'.
C27_AuthEventKeepsView ==
    [][\A hasSession \in BOOLEAN :
          onAuthStateChange(hasSession) =>
             view' = IF hasSession
                     THEN (IF view = "auth" THEN "landing" ELSE view)
                     ELSE "auth"]_vars

\* C28: the selection state handed to a live session originates from the
\* action that started it: a session started from Setup or resumed from
\* history has no case id, and a session started from a case view starts
\* with the default notebook.
C28_SelectionFromStartingAction ==
    [][/\ startFromSetup => (caseId' = NULL /\ resumedFrom' = NULL)
       /\ \A saved \in Resumable \ {NULL} :
             handleLoadSession(saved) => caseId' = NULL
       /\ \A case \in Cases :
             handleStartCaseSession(case) => resumedFrom' = NULL]_vars

\* C29: after deleteSession(id) has written the list, getAllSessions holds
\* no session with that id and getLastSession does not return one; the
\* other stored sessions keep their content and order.
C29_DeletedSessionGone ==
    [][\A id \in SessionIds :
          StorageDelete(id, TRUE) =>
             LET old == getAllSessions(sessionsItem)
                 new == getAllSessions(sessionsItem')
             IN  /\ \A k \in DOMAIN new : new[k].id # id
                 /\ new = SelectSeq(old, LAMBDA s : s.id # id)
                 /\ getLastSession(currentItem').id # id]_vars

\* C30: when feedback generation completes, with the generated or the
\* fallback report, the view stays 'feedback'; it leaves 'feedback' only by
\* an action of the user.
C30_FeedbackViewStays ==
    [][\A o \in Outcomes :
          (generateFeedbackSettled(o) /\ view = "feedback") => view' = "feedback"]_vars

====
